---- MODULE Spec2Model ----
(***************************************************************************)
(* Model of src/app.js: the chat widget's message list, its render, the    *)
(* busy ("thinking") state of the controls and the send/retry flow of      *)
(* sendText.                                                               *)
(*                                                                         *)
(* Text is a sequence of one-character strings, so that trim, toLowerCase, *)
(* includes and the regular expressions of processQuestionMarks are        *)
(* computed character by character.  Two characters outside ASCII are      *)
(* written as named one-element tokens: "FQ" is U+FF1F (fullwidth question *)
(* mark) and "EMDASH" is U+2014.                                           *)
(***************************************************************************)
EXTENDS Integers, Sequences, FiniteSets

VARIABLES
    messages,       \* app.js:45    the message list (role, text)
    rendered,       \* app.js:108   rows of elMessages after the last render()
    inputValue,     \* app.js:38    elInput.value
    thinking,       \* app.js:40    elThinking shown (class "hidden" absent)
    btnDisabled,    \* app.js:39    elBtnSend.disabled
    inputDisabled,  \* app.js:38    elInput.disabled
    turns,          \* app.js:143   one record per sendText call chain (a logical turn)
    trace,          \* history: per turn, the pushes, renders, fetches and timers it made
    clientId,       \* app.js:26    the client id of the loaded page
    localStorage,   \* app.js:26    the item of localStorage under CID_KEY (null: none)
    pqIn,           \* app.js:76    argument of a processQuestionMarks call
    pqOut,          \* app.js:84    its return value
    pqDone          \*              whether that call has returned

vars == <<messages, rendered, inputValue, thinking, btnDisabled, inputDisabled,
          turns, trace, clientId, localStorage, pqIn, pqOut, pqDone>>

uiVars == <<messages, rendered, inputValue, thinking, btnDisabled, inputDisabled,
            turns, trace, clientId, localStorage>>

pqVars == <<pqIn, pqOut, pqDone>>

-----------------------------------------------------------------------------
(* Bounds *)

\* longest argument given to processQuestionMarks in SpecPQ
MaxLen == 5

\* number of user-initiated turns in one run
MaxTurns == 2

-----------------------------------------------------------------------------
(* Characters and strings *)

\* the members of the regular expression class \s that occur in the model
WS == {" ", "\n", "\t"}

\* the class [?FQ] of processQuestionMarks
QM == {"?", "FQ"}

\* line terminators: the characters the regular expression `.` does not match
LT == {"\n"}

Max(S) == CHOOSE x \in S : \A y \in S : y <= x

Min(S) == CHOOSE x \in S : \A y \in S : x <= y

AllWS(s, i, j) == \A k \in i..j : s[k] \in WS

\* F applied to the value of x: x is worked out once, as the argument of a call
\* or the state a statement starts in is
Bind(x, F(_)) == CHOOSE r \in {F(v) : v \in {x}} : TRUE

\* String.prototype.trim
Trim(s) ==
    IF AllWS(s, 1, Len(s)) THEN <<>>
    ELSE SubSeq(s,
                CHOOSE i \in 1..Len(s) : s[i] \notin WS /\ AllWS(s, 1, i - 1),
                CHOOSE j \in 1..Len(s) : s[j] \notin WS /\ AllWS(s, j + 1, Len(s)))

\* String.prototype.includes
Includes(s, sub) ==
    \E i \in 1..(Len(s) - Len(sub) + 1) : SubSeq(s, i, i + Len(sub) - 1) = sub

UpperCase == <<"A","B","C","D","E","F","G","H","I","J","K","L","M",
               "N","O","P","Q","R","S","T","U","V","W","X","Y","Z">>

LowerCase == <<"a","b","c","d","e","f","g","h","i","j","k","l","m",
               "n","o","p","q","r","s","t","u","v","w","x","y","z">>

LowerChar(c) ==
    IF \E i \in 1..26 : UpperCase[i] = c
    THEN LowerCase[CHOOSE i \in 1..26 : UpperCase[i] = c]
    ELSE c

\* String.prototype.toLowerCase
ToLowerCase(s) == [i \in 1..Len(s) |-> LowerChar(s[i])]

-----------------------------------------------------------------------------
(* The string literals of app.js *)

\* app.js:319  "Welcome to the Taipei Marathon Smart Customer Service!<br>I am your assistant. How can I help you today?"
WELCOME_TEXT ==
    <<"W","e","l","c","o","m","e"," ","t","o"," ","t","h","e"," ","T","a","i",
      "p","e","i"," ","M","a","r","a","t","h","o","n"," ","S","m","a","r","t",
      " ","C","u","s","t","o","m","e","r"," ","S","e","r","v","i","c","e","!",
      "<","b","r",">","I"," ","a","m"," ","y","o","u","r"," ","a","s","s","i",
      "s","t","a","n","t","."," ","H","o","w"," ","c","a","n"," ","I"," ","h",
      "e","l","p"," ","y","o","u"," ","t","o","d","a","y","?">>

\* app.js:231  "Still thinking, please wait."
STILL_THINKING_TEXT ==
    <<"S","t","i","l","l"," ","t","h","i","n","k","i","n","g",","," ","p","l",
      "e","a","s","e"," ","w","a","i","t",".">>

\* app.js:262  "Network is unstable, retrying for you."
RETRYING_TEXT ==
    <<"N","e","t","w","o","r","k"," ","i","s"," ","u","n","s","t","a","b","l",
      "e",","," ","r","e","t","r","y","i","n","g"," ","f","o","r"," ","y","o",
      "u",".">>

\* app.js:278  "Sorry, the network is currently unstable. Please try again later."
FINAL_ERROR_TEXT ==
    <<"S","o","r","r","y",","," ","t","h","e"," ","n","e","t","w","o","r","k",
      " ","i","s"," ","c","u","r","r","e","n","t","l","y"," ","u","n","s","t",
      "a","b","l","e","."," ","P","l","e","a","s","e"," ","t","r","y"," ","a",
      "g","a","i","n"," ","l","a","t","e","r",".">>

\* app.js:191  "Network unstable, please try again."
NETWORK_UNSTABLE_TEXT ==
    <<"N","e","t","w","o","r","k"," ","u","n","s","t","a","b","l","e",","," ",
      "p","l","e","a","s","e"," ","t","r","y"," ","a","g","a","i","n",".">>

\* app.js:288  "You are currently offline. Please check your connection and try again."
OFFLINE_TEXT ==
    <<"Y","o","u"," ","a","r","e"," ","c","u","r","r","e","n","t","l","y"," ",
      "o","f","f","l","i","n","e","."," ","P","l","e","a","s","e"," ","c","h",
      "e","c","k"," ","y","o","u","r"," ","c","o","n","n","e","c","t","i","o",
      "n"," ","a","n","d"," ","t","r","y"," ","a","g","a","i","n",".">>

\* app.js:200  "Please rephrase your question."
REPHRASE_TEXT ==
    <<"P","l","e","a","s","e"," ","r","e","p","h","r","a","s","e"," ","y","o",
      "u","r"," ","q","u","e","s","t","i","o","n",".">>

\* app.js:215  "Network error, please try again."
NETWORK_ERROR_TEXT ==
    <<"N","e","t","w","o","r","k"," ","e","r","r","o","r",","," ","p","l","e",
      "a","s","e"," ","t","r","y"," ","a","g","a","i","n",".">>

\* app.js:186  "ERROR_CODE_200"
ERROR_CODE_200 ==
    <<"E","R","R","O","R","_","C","O","D","E","_","2","0","0">>

\* app.js:193  "unknown error"
UNKNOWN_ERROR_TEXT ==
    <<"u","n","k","n","o","w","n"," ","e","r","r","o","r">>

\* app.js:102  "search results"
SEARCH_RESULTS ==
    <<"s","e","a","r","c","h"," ","r","e","s","u","l","t","s">>

\* app.js:102  "html"
HTML ==
    <<"h","t","m","l">>

\* app.js:194  "HTTP "
HTTP_PREFIX ==
    <<"H","T","T","P"," ">>

\* app.js:194  " — "
HTTP_SEPARATOR ==
    <<" ","EMDASH"," ">>

\* app.js:185  "text"
KEY_text ==
    <<"t","e","x","t">>

\* app.js:193  "message"
KEY_message ==
    <<"m","e","s","s","a","g","e">>

\* app.js:184  "error"
KEY_error ==
    <<"e","r","r","o","r">>

\* app.js:180  "errorRaw"
KEY_errorRaw ==
    <<"e","r","r","o","r","R","a","w">>

\* app.js:193  "body"
KEY_body ==
    <<"b","o","d","y">>

\* app.js:213  "clientId"
KEY_clientId ==
    <<"c","l","i","e","n","t","I","d">>

\* app.js:170: the language tag, U+82F1 U+6587, one token per character
LANGUAGE == <<"U82F1", "U6587">>

-----------------------------------------------------------------------------
(* processQuestionMarks, app.js:76-85 *)

\* result.replace(/[?FQ]\s*$/g, ''): the match is a question mark followed by
\* white space up to the end of the string; it is removed.
StripTrailingQM(s) ==
    LET M == {i \in 1..Len(s) : s[i] \in QM /\ AllWS(s, i + 1, Len(s))}
    IN  IF M = {} THEN s ELSE SubSeq(s, 1, Min(M) - 1)

\* result.replace(/[?FQ](?=.)/g, '\n'): a question mark followed by a character
\* that is not a line terminator becomes a line feed.
ReplaceInnerQM(s) ==
    [i \in 1..Len(s) |->
        IF s[i] \in QM /\ i < Len(s) /\ s[i + 1] \notin LT THEN "\n" ELSE s[i]]

\* result.replace(/\n\s*\n/g, '\n'): scanning from the left, a line feed followed
\* by white space and another line feed (the longest such run, \s* is greedy)
\* becomes one line feed, and the scan goes on after the match.
RECURSIVE CollapseFrom(_, _)
CollapseFrom(s, i) ==
    IF i > Len(s) THEN <<>>
    ELSE IF s[i] = "\n"
         THEN LET J == {j \in (i + 1)..Len(s) : s[j] = "\n" /\ AllWS(s, i + 1, j - 1)}
              IN  IF J = {} THEN <<s[i]>> \o CollapseFrom(s, i + 1)
                  ELSE <<"\n">> \o CollapseFrom(s, Max(J) + 1)
         ELSE <<s[i]>> \o CollapseFrom(s, i + 1)

CollapseNewlines(s) == CollapseFrom(s, 1)

processQuestionMarks(text) ==
    Bind(StripTrailingQM(text), LAMBDA stripped :
    Bind(ReplaceInnerQM(stripped), LAMBDA replaced :
    Bind(CollapseNewlines(replaced), LAMBDA collapsed : Trim(collapsed))))

\* the characters of the arguments tried in SpecPQ
PQChars == {"A", "B", " ", "?", "FQ", "\n"}

RECURSIVE StringsOfLen(_)
StringsOfLen(n) ==
    IF n = 0 THEN {<<>>}
    ELSE {Append(s, c) : s \in StringsOfLen(n - 1), c \in PQChars}

\* the strings of up to maxLen of these characters
PQInputs(maxLen) == UNION {StringsOfLen(n) : n \in 0..maxLen}

InitPQ ==
    /\ pqIn \in PQInputs(MaxLen)
    /\ pqOut = <<>>
    /\ pqDone = FALSE
    /\ messages = <<>>
    /\ rendered = <<>>
    /\ inputValue = <<>>
    /\ thinking = FALSE
    /\ btnDisabled = FALSE
    /\ inputDisabled = FALSE
    /\ turns = <<>>
    /\ trace = <<>>
    /\ clientId = <<>>
    /\ localStorage = <<>>

\* one call processQuestionMarks(pqIn)
CallProcessQuestionMarks ==
    /\ ~pqDone
    /\ pqOut' = processQuestionMarks(pqIn)
    /\ pqDone' = TRUE
    /\ UNCHANGED pqIn
    /\ UNCHANGED uiVars

NextPQ == CallProcessQuestionMarks

SpecPQ == InitPQ /\ [][NextPQ]_vars

-----------------------------------------------------------------------------
(* JavaScript values: the parsed response body and its fields *)

\* A value is its typeof tag t, its characters s (strings) and its own fields f
\* (objects), in insertion order.  The bodies of the model hold undefined, null,
\* strings, the empty array and objects whose field values are strings or null.
JV(t, s, f) == [t |-> t, s |-> s, f |-> f]

Undefined == JV("undefined", <<>>, <<>>)

Null == JV("null", <<>>, <<>>)

Str(s) == JV("string", s, <<>>)

EmptyArray == JV("array", <<>>, <<>>)

Obj(f) == JV("object", <<>>, f)

Field(k, v) == [k |-> k, v |-> v]

\* ToBoolean
Truthy(v) ==
    \/ v.t \in {"object", "array"}
    \/ v.t = "string" /\ v.s # <<>>

IsNullish(v) == v.t \in {"undefined", "null"}

\* `k in data` for an object or array
HasKey(d, k) == \E i \in 1..Len(d.f) : d.f[i].k = k

\* data.k: undefined on a value that has no such property
Get(d, k) ==
    IF HasKey(d, k)
    THEN d.f[Max({i \in 1..Len(d.f) : d.f[i].k = k})].v
    ELSE Undefined

\* a || b
Or(a, b) == IF Truthy(a) THEN a ELSE b

\* a ?? b
Coalesce(a, b) == IF IsNullish(a) THEN b ELSE a

\* the strings ss[i], ..., ss[j] joined
RECURSIVE ConcatRange(_, _, _)
ConcatRange(ss, i, j) ==
    IF i > j THEN <<>>
    ELSE IF i = j THEN ss[i]
    ELSE ConcatRange(ss, i, (i + j) \div 2) \o ConcatRange(ss, (i + j) \div 2 + 1, j)

\* the strings of the sequence ss joined
Concat(ss) == Bind(ss, LAMBDA v : ConcatRange(v, 1, Len(v)))

\* String(v), also the conversion of `${v}`
ToString(v) ==
    CASE v.t = "string"    -> v.s
      [] v.t = "null"      -> <<"n","u","l","l">>
      [] v.t = "undefined" -> <<"u","n","d","e","f","i","n","e","d">>
      [] v.t = "array"     -> <<>>
      [] OTHER             -> <<"[","o","b","j","e","c","t"," ","O","b","j","e","c","t","]">>

Digit(d) == <<"0","1","2","3","4","5","6","7","8","9">>[d + 1]

\* the decimal digits of a number, as `${res.status}` gives them
RECURSIVE Decimal(_)
Decimal(n) == IF n < 10 THEN <<Digit(n)>> ELSE Append(Decimal(n \div 10), Digit(n % 10))

\* the quoted form of a string in JSON.stringify
JsonQuote(s) ==
    <<"\"">> \o
    Concat([i \in 1..Len(s) |->
              CASE s[i] = "\"" -> <<"\\", "\"">>
                [] s[i] = "\\" -> <<"\\", "\\">>
                [] s[i] = "\n" -> <<"\\", "n">>
                [] s[i] = "\t" -> <<"\\", "t">>
                [] OTHER       -> <<s[i]>>]) \o
    <<"\"">>

JsonScalar(v) == IF v.t = "string" THEN JsonQuote(v.s) ELSE <<"n","u","l","l">>

\* JSON.stringify(data, null, 2) of an object of scalar fields or of the empty array
JsonStringify2(d) ==
    IF d.t = "array" \/ d.f = <<>> THEN (IF d.t = "array" THEN <<"[","]">> ELSE <<"{","}">>)
    ELSE <<"{","\n">> \o
         Concat([i \in 1..Len(d.f) |->
                   <<" "," ">> \o JsonQuote(d.f[i].k) \o <<":"," ">> \o JsonScalar(d.f[i].v)
                   \o (IF i < Len(d.f) THEN <<",","\n">> ELSE <<"\n">>)]) \o
         <<"}">>

-----------------------------------------------------------------------------
(* Responses: what the network hands to one fetch *)

\* the Response that fetch resolves with: res.status, res.statusText
Res(status, statusText) == [status |-> status, statusText |-> statusText]

NoRes == Res(0, <<>>)

\* the body that res.text() resolves with, and what JSON.parse makes of it:
\* valid is FALSE when JSON.parse throws a SyntaxError, else json is its result
Body(raw, valid, json) == [raw |-> raw, valid |-> valid, json |-> json]

\* an exception: err.name and err.message
Err(name, message) == [name |-> name, message |-> message]

\* new Error(message)
Error(message) == Err(<<"E","r","r","o","r">>, message)

\* what fetch and res.text() reject with on a transport failure
FailedToFetch ==
    Err(<<"T","y","p","e","E","r","r","o","r">>,
        <<"F","a","i","l","e","d"," ","t","o"," ","f","e","t","c","h">>)

\* a catch of app.js:179 that leaves data empty instead of keeping the raw body
ParseBodyDropsRaw(b) ==
    IF b.raw = <<>> THEN Obj(<<>>)
    ELSE IF b.valid THEN b.json
    ELSE Obj(<<>>)

\* app.js:176-181
ParseBody(b) ==
    IF b.raw = <<>> THEN Obj(<<>>)
    ELSE IF b.valid THEN b.json
    ELSE Obj(<<Field(KEY_errorRaw, Str(b.raw))>>)

\* v === "" || v === null || v === undefined
IsEmptyNullOrUndefined(v) == (v.t = "string" /\ v.s = <<>>) \/ v.t \in {"null", "undefined"}
\* a soft failure seen only in an error field, not in an empty text
IsSoftFailureErrorOnly(status, data) ==
    /\ status = 200
    /\ Truthy(data)
    /\ Truthy(Get(data, KEY_error)) \/ Truthy(Get(data, KEY_errorRaw))

\* app.js:184-185
IsSoftFailure(status, data) ==
    /\ status = 200
    /\ Truthy(data)
    /\ \/ Truthy(Get(data, KEY_error))
       \/ Truthy(Get(data, KEY_errorRaw))
       \/ IsEmptyNullOrUndefined(Get(data, KEY_text))

\* res.ok
IsOk(status) == status \in 200..299
\* only 404 mapped to the network-unstable message
IsNetworkUnstableStatus404Only(status) == status = 404

\* app.js:190
IsNetworkUnstableStatus(status) == status = 502 \/ status = 404

\* app.js:193
ServerMsg(data, raw) ==
    Coalesce(Coalesce(IF Truthy(data)
                      THEN Or(Or(Get(data, KEY_error), Get(data, KEY_body)),
                              Get(data, KEY_message))
                      ELSE data,
                      Str(raw)),
             Str(UNKNOWN_ERROR_TEXT))

\* app.js:194
HttpErrorMessage(res, data, raw) ==
    HTTP_PREFIX \o Decimal(res.status) \o <<" ">> \o res.statusText
    \o HTTP_SEPARATOR \o ToString(ServerMsg(data, raw))

\* s || "Please rephrase your question."
OrRephrase(s) == IF s # <<>> THEN s ELSE REPHRASE_TEXT

\* app.js:211-213
IsPlainEmptyObject(data) ==
    /\ data.t # "array"
    /\ {i \in 1..Len(data.f) : data.f[i].k # KEY_clientId} = {}

\* app.js:198-222
ReplyText(data) ==
    IF data.t = "string" THEN Bind(Trim(data.s), LAMBDA s : OrRephrase(s))
    ELSE IF Truthy(data) /\ data.t \in {"object", "array"}
    THEN IF HasKey(data, KEY_text) \/ HasKey(data, KEY_message)
         THEN LET textValue == IF Get(data, KEY_text).t # "undefined"
                               THEN Get(data, KEY_text)
                               ELSE Get(data, KEY_message)
              IN  IF IsEmptyNullOrUndefined(textValue) THEN REPHRASE_TEXT
                  ELSE Bind(Trim(ToString(textValue)), LAMBDA s : OrRephrase(s))
         ELSE IF IsPlainEmptyObject(data) THEN NETWORK_ERROR_TEXT
              ELSE JsonStringify2(data)
    ELSE REPHRASE_TEXT
\* the heuristic without toLowerCase
containsSearchResultsAndHtmlCaseSensitive(text) ==
    /\ text # <<>>
    /\ Includes(text, SEARCH_RESULTS) /\ Includes(text, HTML)

\* app.js:99-103
containsSearchResultsAndHtml(text) ==
    /\ text # <<>>
    /\ Bind(ToLowerCase(text), LAMBDA lowerText :
            Includes(lowerText, SEARCH_RESULTS) /\ Includes(lowerText, HTML))

\* app.js:175-222: what the code between res.text() and the heuristic check ends
\* in: an exception thrown into the catch block (threw) or the reply text
Classify(res, b) ==
    Bind(ParseBody(b), LAMBDA data :
        IF IsSoftFailure(res.status, data)
        THEN [threw |-> TRUE, text |-> ERROR_CODE_200]
        ELSE IF ~IsOk(res.status)
        THEN IF IsNetworkUnstableStatus(res.status)
             THEN [threw |-> TRUE, text |-> NETWORK_UNSTABLE_TEXT]
             ELSE [threw |-> TRUE, text |-> HttpErrorMessage(res, data, b.raw)]
        ELSE [threw |-> FALSE, text |-> ReplyText(data)])

-----------------------------------------------------------------------------
(* Render, app.js:87-138 *)

\* app.js:90-94: the serialisation of a text node escapes &, < and >
escapeHtml(text) ==
    IF \A i \in 1..Len(text) : text[i] \notin {"&", "<", ">"} THEN text
    ELSE Concat([i \in 1..Len(text) |->
                   CASE text[i] = "&" -> <<"&","a","m","p",";">>
                     [] text[i] = "<" -> <<"&","l","t",";">>
                     [] text[i] = ">" -> <<"&","g","t",";">>
                     [] OTHER         -> <<text[i]>>])

\* .replace(/\n/g, '<br>')
NewlinesToBr(s) ==
    IF \A i \in 1..Len(s) : s[i] # "\n" THEN s
    ELSE Concat([i \in 1..Len(s) |->
                   IF s[i] = "\n" THEN <<"<","b","r",">">> ELSE <<s[i]>>])

\* app.js:112-135: the row of one message: its class, its avatar's alt text and
\* the markup assigned to its bubble
Row(m) ==
    LET isUser == m.role = "user"
    IN  [className |-> IF isUser THEN "msg user" ELSE "msg bot",
         alt       |-> IF isUser THEN "You" ELSE "Bot",
         html      |-> IF isUser
                       THEN Bind(escapeHtml(m.text), LAMBDA escaped :
                                 NewlinesToBr(escaped))
                       ELSE m.text]

\* app.js:110-136: elMessages is emptied and one row is appended per message
Rows(msgs) == [i \in 1..Len(msgs) |-> Row(msgs[i])]

-----------------------------------------------------------------------------
(* The inputs of the model: what the user types and what the network answers *)

\* "{"text":""}"
RAW_EMPTY_TEXT ==
    <<"{","\"","t","e","x","t","\"",":","\"","\"","}">>

\* "{"text":" Hello "}"
RAW_HELLO ==
    <<"{","\"","t","e","x","t","\"",":","\""," ","H","e","l","l","o"," ","\"",
      "}">>

\* " Hello "
HELLO_TEXT ==
    <<" ","H","e","l","l","o"," ">>

\* "{"text":"Search Results: <HTML>"}"
RAW_SEARCH ==
    <<"{","\"","t","e","x","t","\"",":","\"","S","e","a","r","c","h"," ","R",
      "e","s","u","l","t","s",":"," ","<","H","T","M","L",">","\"","}">>

\* "Search Results: <HTML>"
SEARCH_TEXT ==
    <<"S","e","a","r","c","h"," ","R","e","s","u","l","t","s",":"," ","<","H",
      "T","M","L",">">>

\* "  "
INPUT_BLANK ==
    <<" "," ">>

\* " A? B? "
INPUT_QUESTION ==
    <<" ","A","?"," ","B","?"," ">>

\* "OK"
STATUS_TEXT_OK ==
    <<"O","K">>

\* "Not Found"
STATUS_TEXT_NOT_FOUND ==
    <<"N","o","t"," ","F","o","u","n","d">>

\* "Bad Gateway"
STATUS_TEXT_BAD_GATEWAY ==
    <<"B","a","d"," ","G","a","t","e","w","a","y">>

\* "Internal Server Error"
STATUS_TEXT_SERVER_ERROR ==
    <<"I","n","t","e","r","n","a","l"," ","S","e","r","v","e","r"," ","E","r",
      "r","o","r">>


\* what the user may leave in the input field
Inputs == {<<>>, INPUT_BLANK, INPUT_QUESTION}

\* 200 {"text":""}: the body of a soft failure
BODY_EMPTY_TEXT == Body(RAW_EMPTY_TEXT, TRUE, Obj(<<Field(KEY_text, Str(<<>>))>>))

\* {"text":" Hello "}: a usable reply
BODY_HELLO == Body(RAW_HELLO, TRUE, Obj(<<Field(KEY_text, Str(HELLO_TEXT))>>))

\* {"text":"Search Results: <HTML>"}: a reply the heuristic of app.js:225 matches
BODY_SEARCH == Body(RAW_SEARCH, TRUE, Obj(<<Field(KEY_text, Str(SEARCH_TEXT))>>))

\* what the network answers in Spec: a response and the body read from it
Answers ==
    {<<Res(200, STATUS_TEXT_OK), BODY_EMPTY_TEXT>>,
     <<Res(200, STATUS_TEXT_OK), BODY_HELLO>>,
     <<Res(200, STATUS_TEXT_OK), BODY_SEARCH>>,
     <<Res(502, STATUS_TEXT_BAD_GATEWAY), BODY_EMPTY_TEXT>>}

\* "<html>Search Results</html>"
RAW_NOT_JSON ==
    <<"<","h","t","m","l",">","S","e","a","r","c","h"," ","R","e","s","u","l",
      "t","s","<","/","h","t","m","l",">">>

\* "oops"
RAW_OOPS ==
    <<"o","o","p","s">>

\* "{"message":"Hi"}"
RAW_MESSAGE ==
    <<"{","\"","m","e","s","s","a","g","e","\"",":","\"","H","i","\"","}">>

\* "Hi"
HI_TEXT ==
    <<"H","i">>

\* "{"error":"boom"}"
RAW_ERROR ==
    <<"{","\"","e","r","r","o","r","\"",":","\"","b","o","o","m","\"","}">>

\* "boom"
BOOM_TEXT ==
    <<"b","o","o","m">>

\* "null"
RAW_NULL ==
    <<"n","u","l","l">>

\* ""Hey""
RAW_STRING ==
    <<"\"","H","e","y","\"">>

\* "Hey"
HEY_TEXT ==
    <<"H","e","y">>

\* "{"clientId":"c1"}"
RAW_CLIENT_ID ==
    <<"{","\"","c","l","i","e","n","t","I","d","\"",":","\"","c","1","\"","}">>

\* "c1"
C1_TEXT ==
    <<"c","1">>

\* "{"foo":"bar"}"
RAW_OTHER ==
    <<"{","\"","f","o","o","\"",":","\"","b","a","r","\"","}">>

\* "foo"
KEY_foo ==
    <<"f","o","o">>

\* "bar"
BAR_TEXT ==
    <<"b","a","r">>

\* "{"text":null,"message":"Hi"}"
RAW_TEXT_NULL ==
    <<"{","\"","t","e","x","t","\"",":","n","u","l","l",",","\"","m","e","s",
      "s","a","g","e","\"",":","\"","H","i","\"","}">>

\* "Created"
STATUS_TEXT_CREATED ==
    <<"C","r","e","a","t","e","d">>


\* an empty body
BODY_NONE == Body(<<>>, TRUE, Undefined)

\* a body that is not JSON
BODY_NOT_JSON == Body(RAW_NOT_JSON, FALSE, Undefined)

\* a body that is not JSON and that the heuristic of app.js:225 does not match
BODY_NOT_JSON_PLAIN == Body(RAW_OOPS, FALSE, Undefined)

\* {"message":"Hi"}
BODY_MESSAGE == Body(RAW_MESSAGE, TRUE, Obj(<<Field(KEY_message, Str(HI_TEXT))>>))

\* {"error":"boom"}
BODY_ERROR == Body(RAW_ERROR, TRUE, Obj(<<Field(KEY_error, Str(BOOM_TEXT))>>))

\* null
BODY_NULL == Body(RAW_NULL, TRUE, Null)

\* "Hey", a JSON string
BODY_STRING == Body(RAW_STRING, TRUE, Str(HEY_TEXT))

\* {"clientId":"c1"}
BODY_CLIENT_ID == Body(RAW_CLIENT_ID, TRUE, Obj(<<Field(KEY_clientId, Str(C1_TEXT))>>))

\* {"foo":"bar"}
BODY_OTHER == Body(RAW_OTHER, TRUE, Obj(<<Field(KEY_foo, Str(BAR_TEXT))>>))

\* {"text":null,"message":"Hi"}
BODY_TEXT_NULL ==
    Body(RAW_TEXT_NULL, TRUE,
         Obj(<<Field(KEY_text, Null), Field(KEY_message, Str(HI_TEXT))>>))

AllBodies ==
    {BODY_EMPTY_TEXT, BODY_HELLO, BODY_SEARCH, BODY_NONE, BODY_NOT_JSON,
     BODY_NOT_JSON_PLAIN, BODY_MESSAGE, BODY_ERROR, BODY_NULL, BODY_STRING, BODY_CLIENT_ID, BODY_OTHER,
     BODY_TEXT_NULL}

AllResponses ==
    {Res(200, STATUS_TEXT_OK), Res(201, STATUS_TEXT_CREATED),
     Res(404, STATUS_TEXT_NOT_FOUND), Res(500, STATUS_TEXT_SERVER_ERROR),
     Res(502, STATUS_TEXT_BAD_GATEWAY)}

\* what the network answers in SpecTurn: every response with every body
AllAnswers == AllResponses \X AllBodies

-----------------------------------------------------------------------------
(* The statements of sendText.  A handler runs to its next await without       *)
(* interruption; it is the composition of its statements on a record S of the *)
(* program's state, and the action commits the record it ends with.           *)

\* a message record; its id (uid()) and ts (Date.now()) are never read
Msg(role, text) == [role |-> role, text |-> text]

\* an entry of a turn's history: what was done and, for a push, the index of the
\* pushed message in the message list
Ev(e, at) == [e |-> e, at |-> at]

\* one logical turn: the position of its sendText call chain (pc), the locals
\* content and retryCount of the running call, the text and client data of its
\* last request, the Response being read, and per settled attempt what came back
Turn(pc, content, retryCount, sent, res, got) ==
    [pc |-> pc, content |-> content, retryCount |-> retryCount, sent |-> sent,
     res |-> res, got |-> got]

\* an attempt's result: the status and raw body received, or failed (and neither)
\* when fetch or res.text() rejected; offline when app.js:288 read navigator.onLine
\* and found it false
Got(status, raw, failed) ==
    [status |-> status, raw |-> raw, failed |-> failed, offline |-> FALSE]

State ==
    [messages |-> messages, rendered |-> rendered, inputValue |-> inputValue,
     thinking |-> thinking, btnDisabled |-> btnDisabled,
     inputDisabled |-> inputDisabled, turns |-> turns, trace |-> trace,
     clientId |-> clientId, localStorage |-> localStorage]

\* the state a handler ends with becomes the program's state
Commit(end) ==
    \E S \in {end} :
        /\ messages' = S.messages
        /\ rendered' = S.rendered
        /\ inputValue' = S.inputValue
        /\ thinking' = S.thinking
        /\ btnDisabled' = S.btnDisabled
        /\ inputDisabled' = S.inputDisabled
        /\ turns' = S.turns
        /\ trace' = S.trace
        /\ clientId' = S.clientId
        /\ localStorage' = S.localStorage

Log(S, t, e, at) == [S EXCEPT !.trace[t] = Append(@, Ev(e, at))]
\* a push that overwrites a transient notice left at the end of the list
pushOverNotice(S, t, e, m) ==
    Bind(S, LAMBDA R :
        LET n == Len(R.messages)
        IN  IF n > 0 /\ R.messages[n].text \in {RETRYING_TEXT, STILL_THINKING_TEXT}
            THEN Log([R EXCEPT !.messages[n] = m], t, e, n)
            ELSE Log([R EXCEPT !.messages = Append(@, m)], t, e, n + 1))

\* messages.push(m), by turn t at the push named e
push(S, t, e, m) ==
    Bind(S, LAMBDA R :
        Log([R EXCEPT !.messages = Append(@, m)], t, e, Len(R.messages) + 1))
\* a render that does not empty elMessages first
renderWithoutClear(S) ==
    Bind(S, LAMBDA R : [R EXCEPT !.rendered = @ \o Rows(R.messages)])

\* app.js:108-138
render(S) == Bind(S, LAMBDA R : [R EXCEPT !.rendered = Rows(R.messages)])

\* render(), called by turn t
renderBy(S, t) == Log(render(S), t, "render", 0)

\* app.js:59-71, with elThinking, elBtnSend and elInput present
setThinking(S, on) ==
    [S EXCEPT !.thinking = on, !.btnDisabled = on, !.inputDisabled = on]
\* a user message pushed by every attempt
IsFirstAttemptAlways(retryCount) == TRUE

\* app.js:150: retryCount === 0
IsFirstAttempt(retryCount) == retryCount = 0

\* a retry that is not limited to the first attempt
MayRetryAlways(retryCount) == TRUE

\* app.js:226 and app.js:257: retryCount === 0
MayRetry(retryCount) == retryCount = 0
\* the check of app.js:145 missing
IsBlankNever(content) == FALSE

\* app.js:145: !content
IsBlank(content) == content = <<>>

\* app.js:162-172: the request given to fetch: the X-Client-Id header and the
\* object whose JSON text is the body
Request(cid, contentToSend) ==
    [XClientId |-> cid,
     body |-> [text |-> contentToSend, clientId |-> cid, language |-> LANGUAGE,
               role |-> "user"]]

\* a retry dropped when a newer turn exists: the turn ends without its call
startFetchUnlessStale(S, t, contentToSend) ==
    Bind(S, LAMBDA R :
        IF t < Len(R.turns)
        THEN [R EXCEPT !.turns[t].pc = "done"]
        ELSE Log([R EXCEPT !.turns[t].pc = "fetch",
                           !.turns[t].sent = Request(R.clientId, contentToSend),
                           !.turns[t].res = NoRes],
                 t, "fetch", 0))

\* app.js:161-173: fetch is called and sendText suspends on it
startFetch(S, t, contentToSend) ==
    Bind(S, LAMBDA R :
        Log([R EXCEPT !.turns[t].pc = "fetch",
                      !.turns[t].sent = Request(R.clientId, contentToSend),
                      !.turns[t].res = NoRes],
            t, "fetch", 0))

\* a wait whose promise is never resolved: sendText stays suspended
startTimerNeverResolved(S, t, pc) == [S EXCEPT !.turns[t].pc = "stuck"]

\* app.js:238 and app.js:269: setTimeout is called and sendText suspends on it
startTimer(S, t, pc) == Log([S EXCEPT !.turns[t].pc = pc], t, pc, 0)

\* sendText returns: the turn is over
finish(S, t) == [S EXCEPT !.turns[t].pc = "done"]

\* app.js:143-173: sendText(text, retryCount) up to its await of fetch.  text is
\* the value of `text ?? elInput?.value ?? ""`.  A call from the page (t is a new
\* turn) gets its turn record once it is past the check of app.js:145.
sendText(S, t, text, retryCount) ==
    Bind(S, LAMBDA R : Bind(Trim(text), LAMBDA content :
        LET contentToSend == processQuestionMarks(content)
            S0 == IF t > Len(R.turns)
                  THEN [R EXCEPT !.turns = Append(@, Turn("run", content, retryCount,
                                                           <<>>, NoRes, <<>>)),
                                 !.trace = Append(@, <<>>)]
                  ELSE [R EXCEPT !.turns[t].retryCount = retryCount]
            S1 == IF IsFirstAttempt(retryCount)
                  THEN renderBy([push(S0, t, "push_user", Msg("user", content))
                                   EXCEPT !.inputValue = <<>>], t)
                  ELSE S0
        IN  IF IsBlank(content) THEN R
            ELSE startFetch(setThinking(S1, TRUE), t, contentToSend)))

\* a search-results retry that clears the busy state before its wait
replyClearsBusyBeforeWait(S, t, replyText) ==
    Bind(S, LAMBDA R :
        IF containsSearchResultsAndHtml(replyText) /\ MayRetry(R.turns[t].retryCount)
        THEN startTimer(setThinking(renderBy(push(R, t, "push_thinking",
                                      Msg("assistant", STILL_THINKING_TEXT)), t),
                                    FALSE),
                        t, "wait2000")
        ELSE finish(renderBy(setThinking(push(R, t, "push_bot",
                                              Msg("assistant", replyText)), FALSE),
                             t),
                    t))

\* app.js:224-250: the reply text is known
reply(S, t, replyText) ==
    Bind(S, LAMBDA R :
        IF containsSearchResultsAndHtml(replyText) /\ MayRetry(R.turns[t].retryCount)
        THEN startTimer(renderBy(push(R, t, "push_thinking",
                                      Msg("assistant", STILL_THINKING_TEXT)), t),
                        t, "wait2000")
        ELSE finish(renderBy(setThinking(push(R, t, "push_bot",
                                              Msg("assistant", replyText)), FALSE),
                             t),
                    t))

\* app.js:288: `${err?.message || err}` is the message, or String(err) (the
\* name of an error whose message is empty)
Friendly(err, isOnline) ==
    IF ~isOnline THEN OFFLINE_TEXT
    ELSE IF err.message # <<>> THEN err.message ELSE err.name

\* app.js:288: navigator.onLine is read: isOnline is the value the browser holds
readOnLine(S, t, isOnline) ==
    Bind(S, LAMBDA R :
        [R EXCEPT !.turns[t].got[Len(R.turns[t].got)].offline = ~isOnline])

\* a soft failure retried without its notice
softFailureSilentRetry(S, t) ==
    Bind(S, LAMBDA R :
        IF MayRetry(R.turns[t].retryCount)
        THEN startTimer(R, t, "wait1000")
        ELSE finish(renderBy(push(R, t, "push_final_error",
                                  Msg("assistant", FINAL_ERROR_TEXT)), t), t))

\* app.js:256-285: the catch block on ERROR_CODE_200
softFailure(S, t) ==
    Bind(S, LAMBDA R :
        IF MayRetry(R.turns[t].retryCount)
        THEN startTimer(renderBy(push(R, t, "push_retry",
                                      Msg("assistant", RETRYING_TEXT)), t),
                        t, "wait1000")
        ELSE finish(renderBy(push(R, t, "push_final_error",
                                  Msg("assistant", FINAL_ERROR_TEXT)), t), t))
\* an error swallowed: the turn ends and nothing is pushed
otherErrorSwallowed(S, t, err, isOnline) == finish(S, t)

\* app.js:287-296: the catch block on any other error
otherError(S, t, err, isOnline) ==
    finish(renderBy(push(readOnLine(S, t, isOnline), t, "push_error",
                         Msg("assistant", Friendly(err, isOnline))), t), t)

\* a catch block without the setThinking(false) of app.js:253
catchKeepsBusy(S, t, err, isOnline) ==
    IF err.message = ERROR_CODE_200
    THEN softFailure(S, t)
    ELSE otherError(S, t, err, isOnline)

\* app.js:252-297: the catch block
catch(S, t, err, isOnline) ==
    IF err.message = ERROR_CODE_200
    THEN softFailure(setThinking(S, FALSE), t)
    ELSE otherError(setThinking(S, FALSE), t, err, isOnline)

\* a second attempt that shows what was thrown as the reply when the first
\* attempt was retried by the search-results heuristic
afterBodyByFirstCategory(S, t, b, isOnline) ==
    Bind(S, LAMBDA R : Bind(Classify(R.turns[t].res, b), LAMBDA c :
        LET res == R.turns[t].res
            S1 == [R EXCEPT !.turns[t].got = Append(@, Got(res.status, b.raw, FALSE))]
            afterSearch == \E i \in 1..Len(R.trace[t]) :
                               R.trace[t][i].e = "push_thinking"
        IN  IF c.threw /\ ~afterSearch THEN catch(S1, t, Error(c.text), isOnline)
            ELSE reply(S1, t, c.text)))

\* app.js:175-250: res.text() resolved with the body b
afterBody(S, t, b, isOnline) ==
    Bind(S, LAMBDA R : Bind(Classify(R.turns[t].res, b), LAMBDA c :
        LET res == R.turns[t].res
            S1 == [R EXCEPT !.turns[t].got = Append(@, Got(res.status, b.raw, FALSE))]
        IN  IF c.threw THEN catch(S1, t, Error(c.text), isOnline)
            ELSE reply(S1, t, c.text)))

\* fetch or res.text() rejected with err
afterReject(S, t, err, isOnline) ==
    catch([S EXCEPT !.turns[t].got = Append(@, Got(0, <<>>, TRUE))],
          t, err, isOnline)

-----------------------------------------------------------------------------
(* The program: the page's events and the continuations of sendText *)

\* a client id as crypto.randomUUID() or the fallback of app.js:30 makes it: a
\* string that is not empty.  Two stand for all of them.
ID_A == <<"i", "d", "-", "a">>

ID_B == <<"i", "d", "-", "b">>

FreshIds == {Str(ID_A), Str(ID_B)}

\* what localStorage.getItem(CID_KEY) finds when a page loads: null, or an id an
\* earlier page stored (app.js:31 is the only writer of the key)
StoredItems == {Null} \cup FreshIds
\* an id generated on every load, whatever the storage holds
loadClientIdAlwaysFresh(stored, fresh) == [clientId |-> fresh, localStorage |-> fresh]

\* app.js:26-32: the stored id is read; when there is none, fresh is generated
\* and stored
loadClientId(stored, fresh) ==
    IF ~Truthy(stored)
    THEN [clientId |-> fresh, localStorage |-> fresh]
    ELSE [clientId |-> stored, localStorage |-> stored]

\* app.js:316-322 after app.js:26-45: the welcome message is pushed and rendered;
\* the page starts with the controls enabled and the thinking animation hidden.
\* The page is loaded on a first visit: the storage held no id and ID_A was
\* generated (SpecLoad has the page loads of every storage).
Init ==
    /\ messages = <<Msg("assistant", WELCOME_TEXT)>>
    /\ rendered = Rows(<<Msg("assistant", WELCOME_TEXT)>>)
    /\ inputValue = <<>>
    /\ thinking = FALSE
    /\ btnDisabled = FALSE
    /\ inputDisabled = FALSE
    /\ turns = <<>>
    /\ trace = <<>>
    /\ clientId = loadClientId(Null, Str(ID_A)).clientId
    /\ localStorage = loadClientId(Null, Str(ID_A)).localStorage
    /\ pqIn = <<>>
    /\ pqOut = <<>>
    /\ pqDone = FALSE

\* the user edits the input field, which a disabled field does not allow
Type(v) ==
    /\ ~inputDisabled
    /\ v # inputValue
    /\ inputValue' = v
    /\ UNCHANGED <<messages, rendered, thinking, btnDisabled, inputDisabled,
                   turns, trace, clientId, localStorage>>
    /\ UNCHANGED pqVars

\* app.js:303-309: a click on the send button or Enter in the input field, which
\* a disabled control does not deliver, calls sendText(); a run starts at most
\* maxTurns turns
UserSend(maxTurns) ==
    /\ ~btnDisabled \/ ~inputDisabled
    /\ IsBlank(Trim(inputValue)) \/ Len(turns) < maxTurns
    /\ Commit(sendText(State, Len(turns) + 1, inputValue, 0))
    /\ UNCHANGED pqVars

\* the awaits of app.js:161 and app.js:175 end: fetch resolved with the response
\* res and res.text() with the body b.  Nothing runs in sendText between the two
\* and no other handler reads res, so the two resumptions are one step.
\* onLine holds the values navigator.onLine may have then.
NetworkResolves(t, res, b, onLine) ==
    /\ turns[t].pc = "fetch"
    /\ \E end \in {afterBody([State EXCEPT !.turns[t].res = res], t, b, isOnline) :
                      isOnline \in onLine} :
          Commit(end)
    /\ UNCHANGED pqVars

\* fetch, or res.text() after it, rejected: a transport failure
NetworkRejects(t, onLine) ==
    /\ turns[t].pc = "fetch"
    /\ \E end \in {afterReject(State, t, FailedToFetch, isOnline) :
                      isOnline \in onLine} :
          Commit(end)
    /\ UNCHANGED pqVars

\* app.js:269-272: the timer of the soft-failure retry fires
RetryTimerFires(t) ==
    /\ turns[t].pc = "wait1000"
    /\ Commit(sendText(State, t, turns[t].content, turns[t].retryCount + 1))
    /\ UNCHANGED pqVars

\* app.js:238-242: the timer of the search-results retry fires
ThinkingTimerFires(t) ==
    /\ turns[t].pc = "wait2000"
    /\ Commit(sendText(setThinking(State, FALSE), t, turns[t].content,
                       turns[t].retryCount + 1))
    /\ UNCHANGED pqVars

Next ==
    \/ \E v \in Inputs : Type(v)
    \/ UserSend(MaxTurns)
    \/ \E t \in 1..Len(turns) : \E a \in Answers :
          NetworkResolves(t, a[1], a[2], BOOLEAN)
    \/ \E t \in 1..Len(turns) : NetworkRejects(t, BOOLEAN)
    \/ \E t \in 1..Len(turns) : RetryTimerFires(t)
    \/ \E t \in 1..Len(turns) : ThinkingTimerFires(t)

Spec == Init /\ [][Next]_vars

\* what the network answers in SpecFair: a soft failure, a usable reply and a
\* reply the heuristic matches; the browser stays online
AnswersFair ==
    {<<Res(200, STATUS_TEXT_OK), BODY_EMPTY_TEXT>>,
     <<Res(200, STATUS_TEXT_OK), BODY_HELLO>>,
     <<Res(200, STATUS_TEXT_OK), BODY_SEARCH>>}

\* the call of turn t is settled: the promise of fetch (and of res.text())
\* resolves or rejects
Settles(t) ==
    /\ t \in 1..Len(turns)
    /\ \/ \E a \in AnswersFair : NetworkResolves(t, a[1], a[2], {TRUE})
       \/ NetworkRejects(t, {TRUE})

\* the turns of Spec under the answers of AnswersFair and transport failures
NextFair ==
    \/ Type(INPUT_QUESTION)
    \/ UserSend(MaxTurns)
    \/ \E t \in 1..MaxTurns : Settles(t)
    \/ \E t \in 1..Len(turns) : RetryTimerFires(t)
    \/ \E t \in 1..Len(turns) : ThinkingTimerFires(t)

\* the network settles every call and the browser fires every timer set by
\* setTimeout (app.js:238, app.js:269)
Fairness ==
    \A t \in 1..MaxTurns :
        /\ WF_vars(Settles(t))
        /\ WF_vars(t \in 1..Len(turns) /\ RetryTimerFires(t))
        /\ WF_vars(t \in 1..Len(turns) /\ ThinkingTimerFires(t))

SpecFair == Init /\ [][NextFair]_vars /\ Fairness

\* the first turn of a page, under every answer of the network
NextTurn ==
    \/ \E v \in Inputs : Type(v)
    \/ UserSend(1)
    \/ \E t \in 1..Len(turns) : \E a \in AllAnswers :
          NetworkResolves(t, a[1], a[2], BOOLEAN)
    \/ \E t \in 1..Len(turns) : NetworkRejects(t, BOOLEAN)
    \/ \E t \in 1..Len(turns) : RetryTimerFires(t)
    \/ \E t \in 1..Len(turns) : ThinkingTimerFires(t)

SpecTurn == Init /\ [][NextTurn]_vars

\* a page is loaded: app.js has run
Loaded == clientId # Undefined

\* before a page of the widget is loaded: no script state, and the storage of
\* the browser profile holds stored
InitLoad ==
    /\ messages = <<>>
    /\ rendered = <<>>
    /\ inputValue = <<>>
    /\ thinking = FALSE
    /\ btnDisabled = FALSE
    /\ inputDisabled = FALSE
    /\ turns = <<>>
    /\ trace = <<>>
    /\ clientId = Undefined
    /\ localStorage \in StoredItems
    /\ pqIn = <<>>
    /\ pqOut = <<>>
    /\ pqDone = FALSE

\* app.js:25-45 and app.js:316-322: the page loads and the script runs top to
\* bottom; fresh is the id crypto.randomUUID() would return
PageLoads(fresh) ==
    /\ ~Loaded
    /\ Commit([State EXCEPT
                 !.clientId = loadClientId(localStorage, fresh).clientId,
                 !.localStorage = loadClientId(localStorage, fresh).localStorage,
                 !.messages = <<Msg("assistant", WELCOME_TEXT)>>,
                 !.rendered = Rows(<<Msg("assistant", WELCOME_TEXT)>>)])
    /\ UNCHANGED pqVars

\* the page is closed or reloaded: its script state is gone, pending fetches and
\* timers with it; the storage stays
PageUnloads ==
    /\ Loaded
    /\ Commit([State EXCEPT
                 !.messages = <<>>, !.rendered = <<>>, !.inputValue = <<>>,
                 !.thinking = FALSE, !.btnDisabled = FALSE, !.inputDisabled = FALSE,
                 !.turns = <<>>, !.trace = <<>>, !.clientId = Undefined])
    /\ UNCHANGED pqVars

\* page loads and reloads over every storage, one turn per page
NextLoad ==
    \/ \E fresh \in FreshIds : PageLoads(fresh)
    \/ PageUnloads
    \/ Loaded /\ \E v \in Inputs : Type(v)
    \/ Loaded /\ UserSend(1)
    \/ \E t \in 1..Len(turns) : \E a \in Answers :
          NetworkResolves(t, a[1], a[2], BOOLEAN)
    \/ \E t \in 1..Len(turns) : NetworkRejects(t, BOOLEAN)
    \/ \E t \in 1..Len(turns) : RetryTimerFires(t)
    \/ \E t \in 1..Len(turns) : ThinkingTimerFires(t)

SpecLoad == InitLoad /\ [][NextLoad]_vars

-----------------------------------------------------------------------------
(* What the claims speak of *)

Turns == 1..Len(turns)

Done(t) == turns[t].pc = "done"

\* the kinds of the entries of turn t's history, in order
Kinds(t) == [i \in 1..Len(trace[t]) |-> trace[t][i].e]

\* the positions in turn t's history of the entries of the kinds E
Positions(t, E) == {i \in 1..Len(trace[t]) : trace[t][i].e \in E}

\* the number of network calls turn t has issued
Calls(t) == Cardinality(Positions(t, {"fetch"}))

\* the pushes of transient notices, of final assistant messages, of either
NoticePushes == {"push_thinking", "push_retry"}

FinalPushes == {"push_bot", "push_final_error", "push_error"}

AssistantPushes == NoticePushes \cup FinalPushes

\* the message turn t pushed at entry i of its history, as the list holds it now
Pushed(t, i) == messages[trace[t][i].at]

\* the sequence s begins with the sequence p
StartsWith(s, p) == Len(s) >= Len(p) /\ SubSeq(s, 1, Len(p)) = p

\* attempt n of turn t came back with this status and raw body
Came(t, n, status, raw) ==
    /\ Len(turns[t].got) >= n
    /\ ~turns[t].got[n].failed
    /\ turns[t].got[n].status = status
    /\ turns[t].got[n].raw = raw

-----------------------------------------------------------------------------
(* C1 *)

\* C1: a logical turn issues at most two network calls: a retry wait is entered
\* only by the first attempt (retryCount = 0, one call made), the call after it is
\* the second attempt (retryCount = 1), and once the second attempt has come back
\* the turn is over, whatever the two attempts came back with.
C1_AtMostTwoCalls ==
    \A t \in Turns :
        /\ Calls(t) <= 2
        /\ Calls(t) = turns[t].retryCount + 1
        /\ turns[t].pc \in {"wait1000", "wait2000"}
              => turns[t].retryCount = 0 /\ Len(turns[t].got) = 1
        /\ Len(turns[t].got) <= Calls(t)
        /\ Len(turns[t].got) = 2 => Done(t)

\* a turn over after two calls whose attempts fell in different categories: a soft
\* failure first, a search-results reply second
C1_Witness ==
    \E t \in Turns :
        /\ Done(t)
        /\ Calls(t) = 2
        /\ Came(t, 1, 200, RAW_EMPTY_TEXT)
        /\ Came(t, 2, 200, RAW_SEARCH)

-----------------------------------------------------------------------------
(* C2 *)

\* C2: every turn pushes its user message exactly once, the list holds one user
\* message per turn, and in the turn's history that push and a render after it
\* come before every network call of the turn; a retry pushes no user message.
C2_UserMessageOnce ==
    /\ Cardinality({i \in 1..Len(messages) : messages[i].role = "user"}) = Len(turns)
    /\ \A t \in Turns :
          /\ Cardinality(Positions(t, {"push_user"})) = 1
          /\ \A u \in Positions(t, {"push_user"}) :
                /\ Pushed(t, u) = Msg("user", turns[t].content)
                /\ \E r \in Positions(t, {"render"}) :
                      /\ u < r
                      /\ \A f \in Positions(t, {"fetch"}) : r < f

\* a turn that was retried and is over
C2_Witness == \E t \in Turns : Done(t) /\ Calls(t) = 2

-----------------------------------------------------------------------------
(* C3 *)

\* C3: a turn that is over has pushed exactly one final assistant message (the
\* reply, an error message or the terminal failure message), that message is in
\* the list and rendered, and only the render follows the push in the turn's
\* history; a turn that is not over has pushed no final message.
C3_OneFinalOutcome ==
    \A t \in Turns :
        /\ Done(t) =>
              /\ Cardinality(Positions(t, FinalPushes)) = 1
              /\ \A f \in Positions(t, FinalPushes) :
                    /\ Pushed(t, f).role = "assistant"
                    /\ rendered[trace[t][f].at] = Row(Pushed(t, f))
                    /\ f + 1 = Len(trace[t])
                    /\ trace[t][f + 1].e = "render"
        /\ ~Done(t) => Positions(t, FinalPushes) = {}

\* a turn ended on the error path of its second attempt
C3_Witness ==
    \E t \in Turns : Done(t) /\ Calls(t) = 2 /\ Positions(t, {"push_error"}) # {}

-----------------------------------------------------------------------------
(* C4 *)

\* C4: a first attempt answered 200 {"text":""} pushes the retry notice, waits on
\* the 1000 ms timer and makes a second call; a second attempt answered the same
\* ends the turn with the terminal failure message: two calls and two assistant
\* messages in all.
C4_SoftFailureTwice ==
    \A t \in Turns :
        Came(t, 1, 200, RAW_EMPTY_TEXT) =>
            /\ StartsWith(Kinds(t), <<"push_user", "render", "fetch", "push_retry",
                                       "render", "wait1000">>)
            /\ Pushed(t, 4) = Msg("assistant", RETRYING_TEXT)
            /\ turns[t].pc # "wait1000" => Calls(t) = 2
            /\ Came(t, 2, 200, RAW_EMPTY_TEXT) =>
                  /\ Done(t)
                  /\ Kinds(t) = <<"push_user", "render", "fetch", "push_retry", "render",
                                  "wait1000", "fetch", "push_final_error", "render">>
                  /\ Pushed(t, 8) = Msg("assistant", FINAL_ERROR_TEXT)
                  /\ Calls(t) = 2
                  /\ Cardinality(Positions(t, AssistantPushes)) = 2

\* a turn over after two answers 200 {"text":""}
C4_Witness ==
    \E t \in Turns :
        Done(t) /\ Came(t, 1, 200, RAW_EMPTY_TEXT) /\ Came(t, 2, 200, RAW_EMPTY_TEXT)

-----------------------------------------------------------------------------
(* C5 *)

\* C5: a first attempt whose reply text holds "search results" and "html" in any
\* case pushes the still-thinking notice instead of the reply, waits on the
\* 2000 ms timer and makes a second call; a second attempt with such a reply
\* pushes the reply text as it is and ends the turn: two calls in all.
C5_SearchRetryOnce ==
    \A t \in Turns :
        Came(t, 1, 200, RAW_SEARCH) =>
            /\ StartsWith(Kinds(t), <<"push_user", "render", "fetch", "push_thinking",
                                       "render", "wait2000">>)
            /\ Pushed(t, 4) = Msg("assistant", STILL_THINKING_TEXT)
            /\ turns[t].pc # "wait2000" => Calls(t) = 2
            /\ Came(t, 2, 200, RAW_SEARCH) =>
                  /\ Done(t)
                  /\ Kinds(t) = <<"push_user", "render", "fetch", "push_thinking", "render",
                                  "wait2000", "fetch", "push_bot", "render">>
                  /\ Pushed(t, 8) = Msg("assistant", SEARCH_TEXT)
                  /\ Calls(t) = 2

\* a turn over after two search-results replies
C5_Witness ==
    \E t \in Turns :
        Done(t) /\ Came(t, 1, 200, RAW_SEARCH) /\ Came(t, 2, 200, RAW_SEARCH)

-----------------------------------------------------------------------------
(* C6 *)

\* C6: a first attempt answered with status 502 or 404, whatever the body, while
\* navigator.onLine is true ends the turn with the network-unstable message: one
\* call, one assistant message, no retry.
C6_NetworkUnstableNoRetry ==
    \A t \in Turns :
        (/\ Len(turns[t].got) >= 1
         /\ ~turns[t].got[1].failed
         /\ turns[t].got[1].status \in {502, 404}
         /\ ~turns[t].got[1].offline) =>
            /\ Done(t)
            /\ Kinds(t) = <<"push_user", "render", "fetch", "push_error", "render">>
            /\ Pushed(t, 4) = Msg("assistant", NETWORK_UNSTABLE_TEXT)
            /\ Calls(t) = 1
            /\ Cardinality(Positions(t, AssistantPushes)) = 1

\* a turn answered 502 with the body of a soft failure, online
C6_Witness ==
    \E t \in Turns :
        Done(t) /\ Came(t, 1, 502, RAW_EMPTY_TEXT) /\ ~turns[t].got[1].offline

-----------------------------------------------------------------------------
(* C7 *)

\* C7: a send while the input field is empty or holds only white space changes
\* nothing: the message list, the rendered rows, the busy state of the controls,
\* the input field, the turns and their network calls stay as they are; so no
\* turn and no user message ever has blank content.
C7_BlankSendIsNoOp ==
    /\ [](/\ \A t \in Turns : Trim(turns[t].content) # <<>>
          /\ \A i \in 1..Len(messages) :
                messages[i].role = "user" => Trim(messages[i].text) # <<>>)
    /\ [][(UserSend(MaxTurns) /\ Trim(inputValue) = <<>>) => UNCHANGED uiVars]_vars

\* the send button is enabled over a field of white space, after a turn has put
\* messages in the list: the state a blank send starts in and, changing
\* nothing, ends in
C7_Witness ==
    /\ inputValue = INPUT_BLANK
    /\ ~btnDisabled
    /\ \E t \in Turns : Done(t)
    /\ ENABLED (UserSend(MaxTurns) /\ Trim(inputValue) = <<>>)

-----------------------------------------------------------------------------
(* C8 *)

\* C8: in every state the program rests in (at every network wait, timer wait and
\* turn end, for every interleaving of turns) the rendered rows are the rows of
\* the message list, one per message and in the order of the list.
C8_RenderedIsMessageList ==
    /\ Len(rendered) = Len(messages)
    /\ \A i \in 1..Len(messages) : rendered[i] = Row(messages[i])

\* two turns overlap: the earlier one is in its second call, the later one is
\* over, and the later one's messages follow the earlier one's notice in the list
C8_Witness ==
    \E t1, t2 \in Turns :
        /\ t1 < t2
        /\ turns[t1].pc = "fetch" /\ Calls(t1) = 2
        /\ Done(t2)
        /\ trace[t1][4].at < trace[t2][1].at
        /\ Len(rendered) >= 5

-----------------------------------------------------------------------------
(* C9 *)

\* C9: the message list is append-only: in every step the list before is a prefix
\* of the list after, so no message is removed, moved or changed, and the
\* transient notices stay where they were pushed.
C9_AppendOnly ==
    [][/\ Len(messages') >= Len(messages)
       /\ SubSeq(messages', 1, Len(messages)) = messages]_vars

\* a retried turn is over and its transient notice is still where it was pushed,
\* followed by later messages
C9_Witness ==
    \E t \in Turns :
        /\ Done(t)
        /\ Calls(t) = 2
        /\ Positions(t, NoticePushes) = {4}
        /\ Pushed(t, 4).text \in {RETRYING_TEXT, STILL_THINKING_TEXT}
        /\ Len(messages) > trace[t][4].at

-----------------------------------------------------------------------------
(* C10 *)

\* C10: processQuestionMarks leaves no trailing ? or FQ, leaves no ? or FQ that
\* is followed by more text (each became a line break), never yields two
\* consecutive line breaks, maps "A? B?" to "A\nB" and maps "A?" to "A".
C10_ProcessQuestionMarksClaim ==
    pqDone =>
        /\ pqOut # <<>> => pqOut[Len(pqOut)] \notin QM
        /\ \A i \in 1..Len(pqOut) : pqOut[i] \in QM => AllWS(pqOut, i + 1, Len(pqOut))
        /\ \A i \in 1..(Len(pqOut) - 1) : ~(pqOut[i] = "\n" /\ pqOut[i + 1] = "\n")
        /\ pqIn = <<"A", "?", " ", "B", "?">> => pqOut = <<"A", "\n", "B">>
        /\ pqIn = <<"A", "?">> => pqOut = <<"A">>

-----------------------------------------------------------------------------
(* C11 *)

\* C11: the client id is stable: a loaded page's id is the stored one, an id once
\* stored is never replaced (so an id is generated only by a load that finds
\* none, and every later load reads the same one back), and the request of every
\* call, first attempt or retry, carries the stored id in its X-Client-Id header
\* and in its body.
C11_ClientIdStable ==
    /\ [](Loaded => Truthy(clientId) /\ clientId = localStorage)
    /\ [](\A t \in Turns :
            turns[t].pc = "fetch" =>
                /\ turns[t].sent.XClientId = localStorage
                /\ turns[t].sent.body.clientId = localStorage)
    /\ [][Truthy(localStorage) => localStorage' = localStorage]_vars
    /\ [][(~Loaded /\ Loaded' /\ Truthy(localStorage)) => clientId' = localStorage]_vars

\* the retry of a turn is outstanding on a page that found ID_B stored or
\* generated it
C11_Witness ==
    /\ localStorage = Str(ID_B)
    /\ \E t \in Turns : turns[t].pc = "fetch" /\ Calls(t) = 2

-----------------------------------------------------------------------------
(* C12 *)

\* C12: in every state, whatever the interleaving of sends, responses and retry
\* timers, an outstanding network call means that the thinking animation is
\* shown and that the send button and the input field are disabled.
C12_BusyWhileCallOutstanding ==
    (\E t \in Turns : turns[t].pc = "fetch") =>
        thinking /\ btnDisabled /\ inputDisabled

-----------------------------------------------------------------------------
(* C13 *)

\* the pushes of turn t, as (turn, entry) pairs
PushesOf(t) == {<<t, i>> : i \in Positions(t, AssistantPushes \cup {"push_user"})}

AllPushes == UNION {PushesOf(t) : t \in Turns}

\* C13: nothing of a turn is cancelled by a newer turn: in every turn's history a
\* retry wait is followed by the call of the retry, every answered attempt has
\* pushed its assistant message, a turn is over only by its final message, and
\* every message any turn pushed is in the list at the place it was appended,
\* one place per push and one push per place after the welcome message, and is
\* rendered there.
C13_NoCancellation ==
    /\ \A t \in Turns :
          /\ \A w \in Positions(t, {"wait1000", "wait2000"}) :
                IF w = Len(trace[t])
                THEN turns[t].pc = trace[t][w].e
                ELSE trace[t][w + 1].e = "fetch"
          /\ Cardinality(Positions(t, AssistantPushes)) = Len(turns[t].got)
          /\ Done(t) => Positions(t, FinalPushes) # {}
    /\ \A p \in AllPushes :
          /\ trace[p[1]][p[2]].at \in 2..Len(messages)
          /\ trace[p[1]][p[2]].at <= Len(rendered)
          /\ rendered[trace[p[1]][p[2]].at] = Row(Pushed(p[1], p[2]))
    /\ {trace[p[1]][p[2]].at : p \in AllPushes} = 2..Len(messages)
    /\ Cardinality(AllPushes) + 1 = Len(messages)

\* a turn was in its retry wait when a newer turn started, and is over: its
\* final message follows the newer turn's user message in the list
C13_Witness ==
    \E t1, t2 \in Turns :
        /\ t1 < t2
        /\ Done(t1)
        /\ Calls(t1) = 2
        /\ \E f \in Positions(t1, FinalPushes) :
              /\ trace[t1][4].at < trace[t2][1].at
              /\ trace[t2][1].at < trace[t1][f].at
              /\ rendered[trace[t1][f].at] = Row(Pushed(t1, f))

-----------------------------------------------------------------------------
(* C14 *)

\* the raw bodies of the model that JSON.parse rejects
NotJsonRaws == {b.raw : b \in {x \in AllBodies : ~x.valid}}

\* JSON.stringify({errorRaw: "<html>Search Results</html>"}, null, 2)
DUMP_NOT_JSON ==
    <<"{","\n"," "," ","\"","e","r","r","o","r","R","a","w","\"",":"," ","\"",
      "<","h","t","m","l",">","S","e","a","r","c","h"," ","R","e","s","u","l",
      "t","s","<","/","h","t","m","l",">","\"","\n","}">>

\* JSON.stringify({errorRaw: "oops"}, null, 2)
DUMP_OOPS ==
    <<"{","\n"," "," ","\"","e","r","r","o","r","R","a","w","\"",":"," ","\"",
      "o","o","p","s","\"","\n","}">>

DumpOf(raw) == IF raw = RAW_NOT_JSON THEN DUMP_NOT_JSON ELSE DUMP_OOPS

\* the place in a turn's history of the push made by its attempt n
AttemptPush(n) == 4 * n

\* C14 as claimed: a first attempt answered with a body that is not JSON, on
\* any status, ends the turn at once with one error message: one call, no retry.
C14_NotJsonIsGenericError ==
    \A t \in Turns :
        (/\ Len(turns[t].got) >= 1
         /\ ~turns[t].got[1].failed
         /\ turns[t].got[1].raw \in NotJsonRaws) =>
            /\ Done(t)
            /\ Calls(t) = 1
            /\ Kinds(t) = <<"push_user", "render", "fetch", "push_error", "render">>

\* C14 amended: an attempt answered with a body that is not JSON
\*  - on a status that is not 2xx ends the turn at once with one error message
\*    (network unstable for 502 and 404, else the HTTP error with the raw body;
\*    the offline message when navigator.onLine is false) and no retry;
\*  - on status 200 is a soft failure: the retry notice and one retry on the
\*    first attempt, the terminal failure message on the second;
\*  - on another 2xx status is no error: the JSON text of {errorRaw: raw} is the
\*    reply text, shown as the reply unless it is a first attempt that the
\*    search-results heuristic retries.
C14_NotJsonByStatus ==
    \A t \in Turns : \A n \in 1..Len(turns[t].got) :
        LET g == turns[t].got[n]
            k == AttemptPush(n)
            ended == Done(t) /\ Len(turns[t].got) = n /\ Calls(t) = n
        IN  (~g.failed /\ g.raw \in NotJsonRaws) =>
              /\ Len(trace[t]) > k
              /\ IF g.status = 200
                 THEN IF n = 1
                      THEN /\ trace[t][k].e = "push_retry"
                           /\ Pushed(t, k) = Msg("assistant", RETRYING_TEXT)
                           /\ turns[t].pc = "wait1000" \/ Calls(t) = 2
                      ELSE /\ trace[t][k].e = "push_final_error"
                           /\ Pushed(t, k) = Msg("assistant", FINAL_ERROR_TEXT)
                           /\ ended
                 ELSE IF g.status \in 200..299
                 THEN IF n = 1 /\ containsSearchResultsAndHtml(DumpOf(g.raw))
                      THEN /\ trace[t][k].e = "push_thinking"
                           /\ turns[t].pc = "wait2000" \/ Calls(t) = 2
                      ELSE /\ trace[t][k].e = "push_bot"
                           /\ Pushed(t, k) = Msg("assistant", DumpOf(g.raw))
                           /\ ended
                 ELSE /\ trace[t][k].e = "push_error"
                      /\ Pushed(t, k) =
                            Msg("assistant",
                                IF g.offline THEN OFFLINE_TEXT
                                ELSE IF g.status \in {502, 404}
                                THEN NETWORK_UNSTABLE_TEXT
                                ELSE HTTP_PREFIX \o <<"5", "0", "0", " ">>
                                     \o STATUS_TEXT_SERVER_ERROR \o HTTP_SEPARATOR
                                     \o g.raw)
                      /\ ended

\* a turn over after two answers 200 with a body that is not JSON
C14_Witness ==
    \E t \in Turns :
        /\ Done(t)
        /\ Came(t, 1, 200, RAW_OOPS)
        /\ Came(t, 2, 200, RAW_NOT_JSON)

-----------------------------------------------------------------------------
(* C15 *)

\* C15: a first attempt answered with a 2xx status, 200 included, and a JSON
\* object without an error field shows the value of its text field, or of its
\* message field when it has no text field, as the reply and ends the turn with
\* no retry: {"text":" Hello "} shows Hello and {"message":"Hi"} shows Hi.
C15_TextElseMessage ==
    \A t \in Turns :
        (/\ Len(turns[t].got) >= 1
         /\ ~turns[t].got[1].failed
         /\ turns[t].got[1].status \in 200..299
         /\ turns[t].got[1].raw \in {RAW_HELLO, RAW_MESSAGE}) =>
            /\ Done(t)
            /\ Calls(t) = 1
            /\ Kinds(t) = <<"push_user", "render", "fetch", "push_bot", "render">>
            /\ Pushed(t, 4) =
                  Msg("assistant",
                      IF turns[t].got[1].raw = RAW_HELLO
                      THEN <<"H", "e", "l", "l", "o">>
                      ELSE <<"H", "i">>)

-----------------------------------------------------------------------------
(* C16 *)

\* C16: whenever no turn is in progress (no call outstanding, no retry wait
\* pending), whatever the turns ended with and however they overlapped, the
\* thinking animation is hidden and the send button and the input field are
\* enabled.
C16_UsableWhenIdle ==
    (\A t \in Turns : Done(t)) =>
        ~thinking /\ ~btnDisabled /\ ~inputDisabled

\* two turns are over and none is in progress: one ended with the terminal
\* failure message, another with an error message
C16_Witness ==
    /\ \A t \in Turns : Done(t)
    /\ \E t1, t2 \in Turns :
          /\ Positions(t1, {"push_final_error"}) # {}
          /\ Positions(t2, {"push_error"}) # {}
    /\ ~thinking /\ ~btnDisabled /\ ~inputDisabled

-----------------------------------------------------------------------------
(* C17 *)

\* the suspension points turn t has passed, in order, and its end
PcPath(t) ==
    SelectSeq(Kinds(t), LAMBDA e : e \in {"fetch", "wait1000", "wait2000"})
    \o (IF Done(t) THEN <<"done">> ELSE <<>>)

\* Idle -> Sending -> {terminal, SoftRetryWait -> Sending -> terminal,
\*                     SearchRetryWait -> Sending -> terminal}
TurnPaths ==
    {<<"fetch", "done">>,
     <<"fetch", "wait1000", "fetch", "done">>,
     <<"fetch", "wait2000", "fetch", "done">>}

\* C17: when every call is settled and every timer fires, every turn that was
\* started reaches its end, also while other turns overlap with it, and on the
\* way it follows one of the three paths of the turn state machine.
C17_EveryTurnTerminates ==
    /\ [](\A t \in Turns :
            /\ \E p \in TurnPaths : StartsWith(p, PcPath(t))
            /\ turns[t].pc \in {"fetch", "wait1000", "wait2000", "done"}
            /\ ~Done(t) => turns[t].pc = PcPath(t)[Len(PcPath(t))])
    /\ \A t \in 1..MaxTurns : (Len(turns) >= t) ~> (Len(turns) >= t /\ Done(t))

\* a turn is over by the soft-failure path, one that began while it waited is
\* over by the search-results path
C17_Witness ==
    \E t1, t2 \in Turns :
        /\ t1 < t2
        /\ PcPath(t1) = <<"fetch", "wait1000", "fetch", "done">>
        /\ PcPath(t2) = <<"fetch", "wait2000", "fetch", "done">>
        /\ trace[t2][1].at < trace[t1][Len(trace[t1]) - 1].at

-----------------------------------------------------------------------------
(* C18 *)

\* turn t runs alone: it is the latest turn, and every earlier turn pushed its
\* final message (the last step of a turn) before t pushed its user message
Alone(t) ==
    /\ t = Len(turns)
    /\ Len(trace[t]) >= 1
    /\ \A u \in 1..(t - 1) :
          \E i \in Positions(u, FinalPushes) : trace[u][i].at < trace[t][1].at

Busy == thinking /\ btnDisabled /\ inputDisabled

Usable == ~thinking /\ ~btnDisabled /\ ~inputDisabled

\* C18: a turn that runs alone from a state with no turn in progress has the
\* busy flag on (animation shown, button and field disabled) while each of its
\* network calls is outstanding and during the search-results retry wait, and off
\* during the soft-failure retry wait; so before the turn has finished a control
\* is enabled, and a new send can start, only in the soft-failure retry wait.
C18_LoneTurnBusyByPhase ==
    \A t \in Turns :
        Alone(t) =>
            /\ turns[t].pc = "fetch" => Busy
            /\ turns[t].pc = "wait2000" => Busy
            /\ turns[t].pc = "wait1000" => Usable
            /\ (~Done(t) /\ (~btnDisabled \/ ~inputDisabled))
                  => turns[t].pc = "wait1000"

\* a turn that started after the turn before it had gone through the
\* search-results wait and ended is in its soft-failure wait, controls enabled
C18_Witness ==
    /\ Len(turns) = 2
    /\ Alone(2)
    /\ PcPath(1) = <<"fetch", "wait2000", "fetch", "done">>
    /\ turns[2].pc = "wait1000"
    /\ Usable

-----------------------------------------------------------------------------
(* C19 *)

\* the assistant messages turn t has pushed
AssistantCount(t) == Cardinality(Positions(t, AssistantPushes))

\* C19: every attempt of a turn that has come back pushed exactly one assistant
\* message, right after its call: a transient notice when a retry wait and then
\* a second call follow it, the final message when the turn ends with it.  So a
\* turn that is over has pushed as many assistant messages as it made calls,
\* one or two, the last of them final and any before it a notice.
C19_OneAssistantMessagePerAttempt ==
    \A t \in Turns :
        /\ AssistantCount(t) = Len(turns[t].got)
        /\ \A j \in Positions(t, {"fetch"}) :
              j < Len(trace[t]) => trace[t][j + 1].e \in AssistantPushes
        /\ \A i \in Positions(t, AssistantPushes) :
              /\ i > 1
              /\ trace[t][i - 1].e = "fetch"
              /\ trace[t][i].at \in 1..Len(messages)
              /\ messages[trace[t][i].at].role = "assistant"
        /\ \A i \in Positions(t, NoticePushes) :
              /\ ~Done(t) => turns[t].pc \in {"wait1000", "wait2000", "fetch"}
              /\ turns[t].pc \in {"fetch", "done"}
                    => \E j \in Positions(t, {"fetch"}) : j > i
        /\ \A i \in Positions(t, FinalPushes) :
              /\ Done(t)
              /\ \A j \in Positions(t, {"fetch"}) : j < i
        /\ Done(t) =>
              /\ Calls(t) \in {1, 2}
              /\ AssistantCount(t) = Calls(t)
              /\ Cardinality(Positions(t, NoticePushes)) = Calls(t) - 1

\* two turns are over: one made one call and pushed one assistant message, the
\* other pushed the still-thinking notice, retried and ended with an error
\* message
C19_Witness ==
    \E t1, t2 \in Turns :
        /\ Done(t1) /\ Calls(t1) = 1 /\ AssistantCount(t1) = 1
        /\ Done(t2) /\ Calls(t2) = 2 /\ AssistantCount(t2) = 2
        /\ Positions(t2, {"push_thinking"}) # {}
        /\ Positions(t2, {"push_error"}) # {}

-----------------------------------------------------------------------------
(* C20 *)

\* the second attempt of turn t has come back
SecondCame(t) == Len(turns[t].got) = 2

\* the final messages turn t pushed, each with the kind of its push
FinalOutcome(t) ==
    {<<trace[t][i].e, Pushed(t, i)>> : i \in Positions(t, FinalPushes)}

\* C20: what a second attempt ends the turn with is determined by what came
\* back to it (status, body, transport failure, online state), whichever wait
\* the first attempt went through: two turns whose second attempts came back
\* alike end with the same message; a soft failure of the second attempt ends
\* the turn with the terminal failure message and a search-results reply of the
\* second attempt is pushed as it is, after a soft-failure retry as after a
\* search-results retry.
C20_SecondOutcomeBySecondResponse ==
    /\ \A t \in Turns :
          SecondCame(t) =>
              /\ Done(t)
              /\ Cardinality(FinalOutcome(t)) = 1
              /\ Came(t, 2, 200, RAW_EMPTY_TEXT) =>
                    FinalOutcome(t) =
                        {<<"push_final_error", Msg("assistant", FINAL_ERROR_TEXT)>>}
              /\ Came(t, 2, 200, RAW_SEARCH) =>
                    FinalOutcome(t) = {<<"push_bot", Msg("assistant", SEARCH_TEXT)>>}
    /\ \A t1, t2 \in Turns :
          (SecondCame(t1) /\ SecondCame(t2) /\ turns[t1].got[2] = turns[t2].got[2])
              => FinalOutcome(t1) = FinalOutcome(t2)

\* two turns retried for different reasons, one after a soft failure and one
\* after a search-results reply, both got a soft failure on the second attempt
\* and both ended with the terminal failure message
C20_Witness ==
    \E t1, t2 \in Turns :
        /\ Came(t1, 1, 200, RAW_EMPTY_TEXT) /\ Came(t1, 2, 200, RAW_EMPTY_TEXT)
        /\ Came(t2, 1, 200, RAW_SEARCH) /\ Came(t2, 2, 200, RAW_EMPTY_TEXT)
        /\ Positions(t1, {"push_final_error"}) # {}
        /\ Positions(t2, {"push_final_error"}) # {}

=============================================================================
